---- MODULE Spec2Model ----
(***************************************************************************)
(* The worker/runtime orchestration gateway of cassie-cool:                *)
(*   src/cassie-cool/src/worker_util.rs          ScriptWorkerThread, the   *)
(*                                               listener loop, the port   *)
(*                                               allocator                 *)
(*   src/cassie-cool/src/api/runtime_controller.rs  the HTTP control API   *)
(*   src/service/src/tools/run.rs                the script runtimes       *)
(*   src/cassie-cool/src/lib.rs                  forward, the proxy        *)
(*                                                                         *)
(* The specifications share the state:                                     *)
(*   Spec        the gateway: the control handlers of runtime_controller   *)
(*               run against WORKER_TABLE, each holding its lock from its  *)
(*               first line to its return;                                 *)
(*   WorkerSpec  one caller that constructs ScriptWorkerThread values and  *)
(*               calls their public methods directly, in any order;        *)
(*   ProxySpec   dev-mode start and exit with the proxy forwarding         *)
(*               requests meanwhile;                                       *)
(*   AllocSpec   the dev-mode routes with the port cursor at the base or   *)
(*               at the top of the port range;                             *)
(*   GatewaySpec every control route and the proxy, served by one          *)
(*               executor thread;                                          *)
(*   FaultSpec   every control route on one executor thread, with accept   *)
(*               errors and runtimes whose flag parsing fails.             *)
(***************************************************************************)
EXTENDS Integers, Sequences, FiniteSets, TLC

\* ------------------------------------------------------------- bounds
Tenants == {"a", "b"}
\* executor threads of the HTTP server (one current-thread runtime each)
NumThreads == 2
\* ScriptWorkerThread::new calls in one run
MaxWorkers == 2
\* script runtimes spawned in one run
MaxRuntimes == 2
\* connections one listener accepts in one run
MaxConns == 1
\* proxy requests in flight at once
MaxForwards == 1

\* ------------------------------------------------- program constants
BasePort == 3000
MaxPort == 65535
ChanCap == 1

Threads == 1 .. NumThreads
Wids == 1 .. MaxWorkers
RtIds == 1 .. MaxRuntimes
NoWorker == 0
NoRt == 0
NoPort == 0
NoTenant == "-"

VARIABLES
  WORKER_PORT,   \* the port cursor
  PORT_TABLE,    \* tenant -> port, NoPort when absent
  WORKER_TABLE,  \* tenant -> the Worker registered for it, NoWorker when absent
  worker,        \* the ScriptWorkerThread values constructed so far
  listener,      \* the listener task spawned by each construction
  server_ch,     \* the ServerStatus channel of each Worker (capacity ChanCap)
  stream,        \* the TcpStream channel of each Worker (unbounded)
  nconn,         \* connections accepted so far by each listener
  rt,            \* the script runtimes spawned so far, with the stop task of each
  h,             \* the control call in progress (it holds WORKER_TABLE in Spec)
  lockWaiters,   \* threads blocked in WORKER_TABLE.lock()
  ret,           \* the last direct method call that returned, and what it returned
  occupied,      \* the ports above the cursor that is_free reports occupied
  poisoned,      \* the locks a panic has poisoned
  rejected,      \* rejection payloads each listener has written
  fwd,           \* proxy requests being forwarded, each holding the PORT_TABLE read guard
  resp,          \* what forward answered last without forwarding
  gateway,       \* the gateway process: "running", or "exited" after std::process::exit
  accept_off     \* the listeners whose select! has its accept branch disabled

vars == <<WORKER_PORT, PORT_TABLE, WORKER_TABLE, worker, listener, server_ch,
          stream, nconn, rt, h, lockWaiters, ret, occupied, poisoned, rejected,
          fwd, resp, gateway, accept_off>>

NoWorkerRec ==
  [id |-> NoTenant, port |-> NoPort, open_debug_server |-> FALSE,
   worker_handlers |-> <<>>, watch_tx |-> NoRt, st |-> "none"]

NoListener == [st |-> "none", ok |-> FALSE, thr |-> 0]

NoRtRec ==
  [kind |-> "none", w |-> NoWorker, inspect |-> FALSE, st |-> "none", sig |-> 0,
   task |-> "none", taskThr |-> 0, taskWait |-> FALSE]

NoRet == [op |-> "none", val |-> FALSE]

\* the public methods of ScriptWorkerThread a direct caller invokes
Methods ==
  {"start_watch_runtime", "start_runtime", "start_debugger_runtime",
   "stop_watch_runtime", "stop_runtime"}

\* ret after a call of op returns val: the HTTP handlers return the same envelope
\* whatever the method did, and leave ret alone
Returned(op, val) == IF op \in Methods THEN [op |-> op, val |-> val] ELSE ret

\* the gateway process has not exited
Up == gateway = "running"

Idle == [op |-> "idle", t |-> NoTenant, thr |-> 0, pc |-> "idle", w |-> NoWorker, ins |-> FALSE]

NoResp == [status |-> 0, body |-> <<>>]

\* the candidates the allocator can reach from cursor within one run
Window(cursor) == {p \in cursor + 1 .. cursor + MaxWorkers : p <= MaxPort}

\* the state at start-up, with the cursor at the given port
InitAt(cursor) ==
  /\ WORKER_PORT = cursor
  /\ occupied \in SUBSET Window(cursor)
  /\ poisoned = {}
  /\ rejected = [w \in Wids |-> 0]
  /\ fwd = {}
  /\ resp = NoResp
  /\ gateway = "running"
  /\ accept_off = {}
  /\ PORT_TABLE = [t \in Tenants |-> NoPort]
  /\ WORKER_TABLE = [t \in Tenants |-> NoWorker]
  /\ worker = [w \in Wids |-> NoWorkerRec]
  /\ listener = [w \in Wids |-> NoListener]
  /\ server_ch = [w \in Wids |-> <<>>]
  /\ stream = [w \in Wids |-> <<>>]
  /\ nconn = [w \in Wids |-> 0]
  /\ rt = [r \in RtIds |-> NoRtRec]
  /\ h = Idle
  /\ lockWaiters = {}
  /\ ret = NoRet

Init == InitAt(BasePort)

\* ------------------------------------------------------ the port allocator
\* WorkerPort::next: checked_add(1), NoPort for None
next(p) == IF p + 1 <= MaxPort THEN p + 1 ELSE NoPort

\* get_next_port with the cursor never advanced
get_next_port_reuse(cursor) == next(BasePort)

\* get_next_port, once its probe loop has found the candidate free: the loop
\* recomputes curport.next() from the unchanged cursor on every turn, so the
\* candidate is always cursor + 1 and the loop spins on it while it is occupied.
get_next_port(cursor) == next(cursor)

\* port_selector::is_free for the candidate
is_free(port) == port \notin occupied

\* ------------------------------------------------------ ScriptWorkerThread
\* The methods are operators on S = [worker, rt]: the Worker values and the
\* runtimes (each with the stop task spawned for it).
FreeRt(rtf) == {r \in RtIds : rtf[r].kind = "none"}
NewRt(rtf) == CHOOSE r \in FreeRt(rtf) : \A q \in FreeRt(rtf) : r <= q
FreeWid == {w \in Wids : worker[w].st = "none"}
NewWid == CHOOSE w \in FreeWid : \A q \in FreeWid : w <= q

\* thread::Builder::spawn of a runtime: run_with_watch ("dev") or run_script ("pro")
spawn_runtime(S, r, w, kind, inspect) ==
  [S EXCEPT !.rt[r] = [NoRtRec EXCEPT !.kind = kind, !.w = w, !.inspect = inspect,
                                      !.st = "running"]]

\* tokio::task::spawn of the task that signals runtime r and then, when wait,
\* sends ServerStatus::Wait
spawn_stop_task(S, r, thr, wait) ==
  [S EXCEPT !.rt[r].task = "spawned", !.rt[r].taskThr = thr, !.rt[r].taskWait = wait]

\* the fields ScriptWorkerThread::new returns
new(S, w, t, port) ==
  [S EXCEPT !.worker[w] = [NoWorkerRec EXCEPT !.id = t, !.port = port, !.st = "live"]]

\* stop_watch_runtime falling back on the newest instance when there is no
\* dev-mode channel
stop_watch_runtime_or_instance(S, w, thr) ==
  LET watch_tx_ref == S.worker[w].watch_tx
      harr == S.worker[w].worker_handlers
      S1 == [S EXCEPT !.worker[w].watch_tx = NoRt]
      S2 == [S EXCEPT !.worker[w].worker_handlers = SubSeq(harr, 1, Len(harr) - 1)]
  IN IF watch_tx_ref # NoRt THEN spawn_stop_task(S1, watch_tx_ref, thr, TRUE)
     ELSE IF harr = <<>> THEN S1
     ELSE spawn_stop_task(S2, harr[Len(harr)], thr, Len(harr) = 1)

stop_watch_runtime(S, w, thr) ==
  LET watch_tx_ref == S.worker[w].watch_tx
      S1 == [S EXCEPT !.worker[w].watch_tx = NoRt]
  IN IF watch_tx_ref = NoRt THEN S1 ELSE spawn_stop_task(S1, watch_tx_ref, thr, TRUE)

\* the result is [s, send]: the state, and whether the method ends in
\* server_tx.send(ServerStatus::Start).await
start_watch_runtime(S, w) ==
  LET r == NewRt(S.rt)
      S1 == spawn_runtime(S, r, w, "dev", FALSE)
  IN [s |-> [S1 EXCEPT !.worker[w].watch_tx = r], send |-> TRUE]

\* start_runtime sending ServerStatus::Start whatever the size of the list
start_runtime_always_send(S, w) ==
  LET r == NewRt(S.rt)
      S1 == spawn_runtime(S, r, w, "pro", S.worker[w].open_debug_server)
  IN [s |-> [S1 EXCEPT !.worker[w].worker_handlers = Append(@, r)], send |-> TRUE]

start_runtime(S, w) ==
  LET size == Len(S.worker[w].worker_handlers)
      r == NewRt(S.rt)
      S1 == spawn_runtime(S, r, w, "pro", S.worker[w].open_debug_server)
  IN [s |-> [S1 EXCEPT !.worker[w].worker_handlers = Append(@, r)], send |-> size = 0]

\* start_debugger_runtime without its size check
start_debugger_runtime_always(S, w) ==
  start_runtime([S EXCEPT !.worker[w].open_debug_server = TRUE], w)

start_debugger_runtime(S, w) ==
  LET size == Len(S.worker[w].worker_handlers)
  IN IF size = 0
       THEN start_runtime([S EXCEPT !.worker[w].open_debug_server = TRUE], w)
       ELSE [s |-> S, send |-> FALSE]

\* what stop_runtime returns
stop_runtime_ret(S, w) == S.worker[w].worker_handlers # <<>>

\* stop_runtime taking the oldest handle instead of the newest
stop_runtime_fifo(S, w, thr) ==
  LET harr == S.worker[w].worker_handlers
      len == Len(harr) - 1
      S1 == [S EXCEPT !.worker[w].worker_handlers = Tail(harr)]
  IN IF harr = <<>> THEN S ELSE spawn_stop_task(S1, Head(harr), thr, len = 0)

\* stop_runtime signalling the runtime itself, before it returns
stop_runtime_inline(S, w, thr) ==
  LET harr == S.worker[w].worker_handlers
      hand == harr[Len(harr)]
      len == Len(harr) - 1
      S1 == [S EXCEPT !.worker[w].worker_handlers = SubSeq(harr, 1, len)]
  IN IF harr = <<>> THEN S
     ELSE [S1 EXCEPT !.rt[hand].sig = @ + 1, !.rt[hand].task = "done"]

stop_runtime(S, w, thr) ==
  LET harr == S.worker[w].worker_handlers
      hand == harr[Len(harr)]
      len == Len(harr) - 1
      S1 == [S EXCEPT !.worker[w].worker_handlers = SubSeq(harr, 1, len)]
  IN IF harr = <<>> THEN S ELSE spawn_stop_task(S1, hand, thr, len = 0)

RECURSIVE stop_loop(_, _, _)
stop_loop(S, w, thr) ==
  IF stop_runtime_ret(S, w) THEN stop_loop(stop_runtime(S, w, thr), w, thr) ELSE S

\* stop_all_runtime with one stop_runtime call in place of its loop
stop_all_runtime_once(S, w, thr) == stop_runtime(stop_watch_runtime(S, w, thr), w, thr)

stop_all_runtime(S, w, thr) == stop_loop(stop_watch_runtime(S, w, thr), w, thr)

\* impl Drop, up to its send_blocking(ServerStatus::Exit)
drop(S, w, thr) ==
  LET S1 == stop_all_runtime(S, w, thr) IN [S1 EXCEPT !.worker[w].st = "dropped"]

\* ------------------------------------------------------ channels and threads
\* a send on the ServerStatus channel of Worker w: the receiver is gone once the
\* listener task has ended, a full channel suspends the sender
Closed(w) == listener[w].st \in {"failed", "exited"}
SendOutcome(w) ==
  IF Closed(w) THEN "closed" ELSE IF Len(server_ch[w]) < ChanCap THEN "sent" ELSE "full"
Send(w, item) == IF SendOutcome(w) = "sent" THEN [server_ch EXCEPT ![w] = Append(@, item)] ELSE server_ch

\* (a task that has ended, and a listener that has ended, no longer name a thread)
\* a thread that cannot poll its tasks: it is inside WORKER_TABLE.lock(), inside
\* the probe loop of get_next_port, inside PORT_TABLE.write(), or inside send_blocking
Busy(thr) ==
  thr \in lockWaiters \/ (h.thr = thr /\ h.pc \in {"probing", "port_write", "send_exit"})

Cur == [worker |-> worker, rt |-> rt]
Active(wr) == wr.worker_handlers # <<>> \/ wr.watch_tx # NoRt

\* ------------------------------------------------------ the control calls
\* The tail of a start-type call on Worker w, res being what the start method
\* computed: the send of ServerStatus::Start when the method ends in one, then
\* the caller's insert into WORKER_TABLE (ins), then the return. A full channel
\* suspends the caller at the send.
Launch(op, t, thr, w, res, ins) ==
  /\ worker' = res.s.worker
  /\ rt' = res.s.rt
  /\ server_ch' = IF res.send THEN Send(w, "Start") ELSE server_ch
  /\ IF res.send /\ SendOutcome(w) = "full"
       THEN /\ h' = [op |-> op, t |-> t, thr |-> thr, pc |-> "send_start", w |-> w, ins |-> ins]
            /\ WORKER_TABLE' = WORKER_TABLE
       ELSE /\ h' = Idle
            /\ WORKER_TABLE' = IF ins THEN [WORKER_TABLE EXCEPT ![t] = w] ELSE WORKER_TABLE

\* the start method each handler calls on the Worker it has just constructed
StartMethod(op, S, w) ==
  CASE op \in {"start", "restart", "start_watch_runtime"} -> start_watch_runtime(S, w)
    [] op \in {"pro_start", "pro_restart", "start_runtime"} -> start_runtime(S, w)
    [] op \in {"start_debugger", "start_debugger_runtime"} -> start_debugger_runtime(S, w)

\* ScriptWorkerThread::new with the candidate port free, followed by the
\* handler's start call on the new Worker
CanCreate == FreeWid # {} /\ FreeRt(rt) # {} /\ get_next_port(WORKER_PORT) # NoPort

Create(op, t, thr, ins) ==
  /\ CanCreate
  /\ LET w == NewWid
         port == get_next_port(WORKER_PORT)
     IN /\ WORKER_PORT' = port
        /\ PORT_TABLE' = [PORT_TABLE EXCEPT ![t] = port]
        /\ listener' = [listener EXCEPT ![w] = [st |-> "spawned", ok |-> FALSE, thr |-> thr]]
        /\ Launch(op, t, thr, w, StartMethod(op, new(Cur, w, t, port), w), ins)

\* get_next_port past its probe loop, at PORT_TABLE.write(): the write guard is
\* granted once no forward holds a read guard, and the thread blocks until then
Allocate(op, t, thr, ins) ==
  IF fwd = {}
    THEN Create(op, t, thr, ins)
    ELSE /\ h' = [op |-> op, t |-> t, thr |-> thr, pc |-> "port_write", w |-> NoWorker, ins |-> ins]
         /\ UNCHANGED <<WORKER_PORT, PORT_TABLE, WORKER_TABLE, worker, listener, server_ch, rt>>

\* the None branch of a start-type handler. curport.next().unwrap() panics when
\* the cursor is at the last port: the unwinding drops the WORKER_PORT guard and
\* the handler's WORKER_TABLE guard, and both locks are left poisoned. Otherwise
\* is_free answers for the candidate, and while it answers false the handler
\* stays in the probe loop.
Construct(op, t, thr) ==
  /\ FreeWid # {}
  /\ FreeRt(rt) # {}
  /\ IF next(WORKER_PORT) = NoPort
       THEN /\ poisoned' = poisoned \cup {"WORKER_PORT", "WORKER_TABLE"}
            /\ h' = Idle
            /\ UNCHANGED <<WORKER_PORT, PORT_TABLE, WORKER_TABLE, worker, listener,
                           server_ch, stream, nconn, rt, ret>>
       ELSE /\ IF is_free(get_next_port(WORKER_PORT))
                 THEN Allocate(op, t, thr, TRUE)
                 ELSE /\ h' = [op |-> op, t |-> t, thr |-> thr, pc |-> "probing",
                               w |-> NoWorker, ins |-> TRUE]
                      /\ UNCHANGED <<WORKER_PORT, PORT_TABLE, WORKER_TABLE, worker,
                                     listener, server_ch, rt>>
            /\ UNCHANGED <<stream, nconn, ret, poisoned>>

\* the Some branch of a start-type handler
OnWorker(op, t, thr, w, res) ==
  /\ Launch(op, t, thr, w, res, FALSE)
  /\ UNCHANGED <<WORKER_PORT, PORT_TABLE, listener, stream, nconn, ret, poisoned>>

Return ==
  /\ h' = Idle
  /\ UNCHANGED <<WORKER_PORT, PORT_TABLE, WORKER_TABLE, worker, listener, server_ch,
                 stream, nconn, rt, ret, poisoned>>

\* WORKER_TABLE.lock().unwrap() succeeding on thread thr
Lock(thr) ==
  /\ Up
  /\ h = Idle
  /\ "WORKER_TABLE" \notin poisoned
  /\ lockWaiters' = lockWaiters \ {thr}

\* GET /runtime/{t}/start
api_start_runtime(t, thr) ==
  /\ Lock(thr)
  /\ LET w == WORKER_TABLE[t]
     IN IF w # NoWorker
          THEN IF worker[w].watch_tx = NoRt
                 THEN /\ FreeRt(rt) # {}
                      /\ OnWorker("start", t, thr, w, start_watch_runtime(Cur, w))
                 ELSE Return
          ELSE Construct("start", t, thr)
  /\ UNCHANGED <<occupied, rejected, fwd, resp, gateway, accept_off>>

\* restart_runtime (GET /{t}/restart)
api_restart_runtime(t, thr) ==
  /\ Lock(thr)
  /\ LET w == WORKER_TABLE[t]
     IN IF w # NoWorker
          THEN /\ FreeRt(rt) # {}
               /\ OnWorker("restart", t, thr, w,
                           start_watch_runtime(stop_watch_runtime(Cur, w, thr), w))
          ELSE Construct("restart", t, thr)
  /\ UNCHANGED <<occupied, rejected, fwd, resp, gateway, accept_off>>

\* GET /runtime/{t}/start_debugger
api_start_debugger_runtime(t, thr) ==
  /\ Lock(thr)
  /\ LET w == WORKER_TABLE[t]
     IN IF w # NoWorker
          THEN /\ worker[w].worker_handlers = <<>> => FreeRt(rt) # {}
               /\ OnWorker("start_debugger", t, thr, w, start_debugger_runtime(Cur, w))
          ELSE Construct("start_debugger", t, thr)
  /\ UNCHANGED <<occupied, rejected, fwd, resp, gateway, accept_off>>

\* GET /runtime/pro/{t}/start
api_start_pro_runtime(t, thr) ==
  /\ Lock(thr)
  /\ LET w == WORKER_TABLE[t]
     IN IF w # NoWorker
          THEN /\ FreeRt(rt) # {}
               /\ OnWorker("pro_start", t, thr, w, start_runtime(Cur, w))
          ELSE Construct("pro_start", t, thr)
  /\ UNCHANGED <<occupied, rejected, fwd, resp, gateway, accept_off>>

\* restart_pro_runtime (GET /pro/{t}/restart)
api_restart_pro_runtime(t, thr) ==
  /\ Lock(thr)
  /\ LET w == WORKER_TABLE[t]
     IN IF w # NoWorker
          THEN /\ FreeRt(rt) # {}
               /\ OnWorker("pro_restart", t, thr, w, start_runtime(Cur, w))
          ELSE Construct("pro_restart", t, thr)
  /\ UNCHANGED <<occupied, rejected, fwd, resp, gateway, accept_off>>

\* the stop handler taking the Worker out of WORKER_TABLE as well
api_stop_runtime_unregister(t, thr) ==
  /\ Lock(thr)
  /\ LET w == WORKER_TABLE[t]
         S1 == IF w # NoWorker THEN stop_watch_runtime(Cur, w, thr) ELSE Cur
     IN /\ worker' = S1.worker
        /\ rt' = S1.rt
  /\ WORKER_TABLE' = [WORKER_TABLE EXCEPT ![t] = NoWorker]
  /\ UNCHANGED <<WORKER_PORT, PORT_TABLE, listener, server_ch, stream, nconn, h, ret>>
  /\ UNCHANGED <<occupied, poisoned, rejected, fwd, resp, gateway, accept_off>>

\* GET /runtime/{t}/stop
api_stop_runtime(t, thr) ==
  /\ Lock(thr)
  /\ LET w == WORKER_TABLE[t]
         S1 == IF w # NoWorker THEN stop_watch_runtime(Cur, w, thr) ELSE Cur
     IN /\ worker' = S1.worker
        /\ rt' = S1.rt
  /\ UNCHANGED <<WORKER_PORT, PORT_TABLE, WORKER_TABLE, listener, server_ch, stream,
                 nconn, h, ret>>
  /\ UNCHANGED <<occupied, poisoned, rejected, fwd, resp, gateway, accept_off>>

\* GET /runtime/pro/{t}/stop (the handler drops what stop_runtime returns)
api_stop_pro_runtime(t, thr) ==
  /\ Lock(thr)
  /\ LET w == WORKER_TABLE[t]
         S1 == IF w # NoWorker THEN stop_runtime(Cur, w, thr) ELSE Cur
     IN /\ worker' = S1.worker
        /\ rt' = S1.rt
  /\ UNCHANGED <<WORKER_PORT, PORT_TABLE, WORKER_TABLE, listener, server_ch, stream,
                 nconn, h, ret>>
  /\ UNCHANGED <<occupied, poisoned, rejected, fwd, resp, gateway, accept_off>>

\* Drop without hand_port.remove(&self.id)
Destroy_keep_port(t, thr, w) ==
  LET S1 == drop(Cur, w, thr)
  IN /\ PORT_TABLE' = PORT_TABLE
     /\ worker' = S1.worker
     /\ rt' = S1.rt
     /\ server_ch' = Send(w, "Exit")
     /\ h' = IF SendOutcome(w) = "full"
               THEN [op |-> "exit", t |-> t, thr |-> thr, pc |-> "send_exit",
                     w |-> w, ins |-> FALSE]
               ELSE Idle

\* impl Drop for the Worker w of tenant t, from the PORT_TABLE write guard on:
\* the entry is removed, everything is stopped, and the thread blocks in
\* send_blocking(ServerStatus::Exit) while the channel is full
Destroy(t, thr, w) ==
  LET S1 == drop(Cur, w, thr)
  IN /\ PORT_TABLE' = [PORT_TABLE EXCEPT ![t] = NoPort]
     /\ worker' = S1.worker
     /\ rt' = S1.rt
     /\ server_ch' = Send(w, "Exit")
     /\ h' = IF SendOutcome(w) = "full"
               THEN [op |-> "exit", t |-> t, thr |-> thr, pc |-> "send_exit",
                     w |-> w, ins |-> FALSE]
               ELSE Idle

\* GET /runtime/{t}/exit: the Worker leaves WORKER_TABLE and is dropped; Drop
\* starts with PORT_TABLE.write(), which blocks the thread while a forward holds
\* a read guard
api_exit(t, thr) ==
  /\ Lock(thr)
  /\ LET w == WORKER_TABLE[t]
     IN IF w # NoWorker
          THEN /\ WORKER_TABLE' = [WORKER_TABLE EXCEPT ![t] = NoWorker]
               /\ IF fwd = {}
                    THEN Destroy(t, thr, w)
                    ELSE /\ h' = [op |-> "exit", t |-> t, thr |-> thr, pc |-> "port_write",
                                  w |-> w, ins |-> FALSE]
                         /\ UNCHANGED <<PORT_TABLE, worker, rt, server_ch>>
          ELSE UNCHANGED <<WORKER_TABLE, PORT_TABLE, worker, rt, server_ch, h>>
  /\ UNCHANGED <<WORKER_PORT, listener, stream, nconn, ret>>
  /\ UNCHANGED <<occupied, poisoned, rejected, fwd, resp, gateway, accept_off>>

\* Res { code, data } as the handlers build it before respond_to()
Res(code, data) == [code |-> code, data |-> data]

\* get_runtime_info counting the handles only
WorkerInfo_handles_only(t) ==
  LET w == WORKER_TABLE[t]
  IN [count |-> IF w = NoWorker THEN 0 ELSE Len(worker[w].worker_handlers), code |-> t]

\* the WorkerInfo get_runtime_info reports for tenant t: the number of handles
\* held, or 1 for a Worker in dev mode that holds none
WorkerInfo(t) ==
  LET w == WORKER_TABLE[t]
      count == IF w = NoWorker THEN 0 ELSE Len(worker[w].worker_handlers)
  IN [count |-> IF w # NoWorker /\ count = 0 /\ worker[w].watch_tx # NoRt THEN 1 ELSE count,
      code |-> t]

\* the envelope each control handler returns (the texts of the start and stop
\* handlers and of the info description in translation)
Reply(op, t) ==
  CASE op = "info" -> Res(0, WorkerInfo(t))
    [] op \in {"stop", "pro_stop"} -> Res(0, "stopped")
    [] op = "exit" -> Res(0, IF WORKER_TABLE[t] # NoWorker THEN "End all processes"
                                                           ELSE "The process has ended ")
    [] OTHER -> Res(0, "started")

\* GET /runtime/{t}/info: the handler reads the Worker under the lock and returns
api_get_runtime_info(t, thr) ==
  /\ Lock(thr)
  /\ UNCHANGED <<WORKER_PORT, PORT_TABLE, WORKER_TABLE, worker, listener, server_ch,
                 stream, nconn, rt, h, ret>>
  /\ UNCHANGED <<occupied, poisoned, rejected, fwd, resp, gateway, accept_off>>

\* a turn of the probe loop of get_next_port that finds the candidate free
ProbeFree ==
  /\ Up
  /\ h.pc = "probing"
  /\ is_free(get_next_port(WORKER_PORT))
  /\ Allocate(h.op, h.t, h.thr, h.ins)
  /\ UNCHANGED <<stream, nconn, lockWaiters, ret>>
  /\ UNCHANGED <<occupied, poisoned, rejected, fwd, resp, gateway, accept_off>>

\* PORT_TABLE.write() granted to the handler blocked on it
PortWriteResume ==
  /\ Up
  /\ h.pc = "port_write"
  /\ fwd = {}
  /\ IF h.op = "exit"
       THEN Destroy(h.t, h.thr, h.w) /\ UNCHANGED <<WORKER_PORT, WORKER_TABLE, listener>>
       ELSE Create(h.op, h.t, h.thr, h.ins)
  /\ UNCHANGED <<stream, nconn, lockWaiters, ret>>
  /\ UNCHANGED <<occupied, poisoned, rejected, fwd, resp, gateway, accept_off>>

\* a handler on thread thr whose WORKER_TABLE.lock() returns the poison error:
\* unwrap panics and the request fails
PoisonedLock(thr) ==
  /\ Up
  /\ h = Idle
  /\ "WORKER_TABLE" \in poisoned
  /\ thr \in lockWaiters
  /\ lockWaiters' = lockWaiters \ {thr}
  /\ UNCHANGED <<WORKER_PORT, PORT_TABLE, WORKER_TABLE, worker, listener, server_ch,
                 stream, nconn, rt, h, ret>>
  /\ UNCHANGED <<occupied, poisoned, rejected, fwd, resp, gateway, accept_off>>

\* another process releases a port the allocator has yet to reach
EnvRelease(p) ==
  /\ p \in occupied
  /\ occupied' = occupied \ {p}
  /\ UNCHANGED <<WORKER_PORT, PORT_TABLE, WORKER_TABLE, worker, listener, server_ch,
                 stream, nconn, rt, h, lockWaiters, ret, poisoned, rejected, fwd, resp,
                 gateway, accept_off>>

\* server_tx.send(ServerStatus::Start).await completing for the suspended call
SendStartResume ==
  /\ Up
  /\ h.pc = "send_start"
  /\ ~Busy(h.thr)
  /\ SendOutcome(h.w) # "full"
  /\ server_ch' = Send(h.w, "Start")
  /\ WORKER_TABLE' = IF h.ins THEN [WORKER_TABLE EXCEPT ![h.t] = h.w] ELSE WORKER_TABLE
  /\ h' = Idle
  /\ ret' = Returned(h.op, TRUE)
  /\ UNCHANGED <<WORKER_PORT, PORT_TABLE, worker, listener, stream, nconn, rt,
                 lockWaiters>>
  /\ UNCHANGED <<occupied, poisoned, rejected, fwd, resp, gateway, accept_off>>

\* send_blocking(ServerStatus::Exit) completing
SendExitResume ==
  /\ Up
  /\ h.pc = "send_exit"
  /\ SendOutcome(h.w) # "full"
  /\ server_ch' = Send(h.w, "Exit")
  /\ h' = Idle
  /\ UNCHANGED <<WORKER_PORT, PORT_TABLE, WORKER_TABLE, worker, listener, stream,
                 nconn, rt, lockWaiters, ret>>
  /\ UNCHANGED <<occupied, poisoned, rejected, fwd, resp, gateway, accept_off>>

\* a handler on thread thr reaching WORKER_TABLE.lock() while the lock is held:
\* std::sync::Mutex blocks the thread
BlockOnLock(thr) ==
  /\ Up
  /\ h # Idle
  /\ ~Busy(thr)
  /\ lockWaiters' = lockWaiters \cup {thr}
  /\ UNCHANGED <<WORKER_PORT, PORT_TABLE, WORKER_TABLE, worker, listener, server_ch,
                 stream, nconn, rt, h, ret>>
  /\ UNCHANGED <<occupied, poisoned, rejected, fwd, resp, gateway, accept_off>>

\* ------------------------------------------------------ the listener loop
\* TcpListener::bind(addr).await.unwrap() in the spawned task: the task ends in
\* a panic when the bind fails, and server_rx and stream_tx go with it
ListenerBind(w) ==
  /\ Up
  /\ listener[w].st = "spawned"
  /\ ~Busy(listener[w].thr)
  /\ \E bound \in BOOLEAN :
       /\ listener' = [listener EXCEPT ![w].st = IF bound THEN "running" ELSE "failed",
                                       ![w].ok = FALSE,
                                       ![w].thr = IF bound THEN @ ELSE 0]
       /\ server_ch' = IF bound THEN server_ch ELSE [server_ch EXCEPT ![w] = <<>>]
  /\ UNCHANGED <<WORKER_PORT, PORT_TABLE, WORKER_TABLE, worker, stream, nconn, rt, h,
                 lockWaiters, ret>>
  /\ UNCHANGED <<occupied, poisoned, rejected, fwd, resp, gateway, accept_off>>

\* the accept branch without its test of ok: every connection is queued
ListenerAccept_queue_all(w) ==
  /\ Up
  /\ listener[w].st = "running"
  /\ w \notin accept_off
  /\ ~Busy(listener[w].thr)
  /\ nconn[w] < MaxConns
  /\ nconn' = [nconn EXCEPT ![w] = @ + 1]
  /\ stream' = [stream EXCEPT ![w] = Append(@, [active |-> Active(worker[w])])]
  /\ rejected' = IF listener[w].ok THEN [rejected EXCEPT ![w] = @ + 1] ELSE rejected
  /\ UNCHANGED <<WORKER_PORT, PORT_TABLE, WORKER_TABLE, worker, listener, server_ch, rt,
                 h, lockWaiters, ret>>
  /\ UNCHANGED <<occupied, poisoned, fwd, resp, gateway, accept_off>>

\* the accept branch of select!: with ok set the connection is written the
\* rejection payload and dropped, otherwise it is sent on the stream channel.
\* A queued connection carries whether the Worker was active when it was accepted.
ListenerAccept(w) ==
  /\ Up
  /\ listener[w].st = "running"
  /\ w \notin accept_off
  /\ ~Busy(listener[w].thr)
  /\ nconn[w] < MaxConns
  /\ nconn' = [nconn EXCEPT ![w] = @ + 1]
  /\ stream' = IF listener[w].ok THEN stream
               ELSE [stream EXCEPT ![w] = Append(@, [active |-> Active(worker[w])])]
  /\ rejected' = IF listener[w].ok THEN [rejected EXCEPT ![w] = @ + 1] ELSE rejected
  /\ UNCHANGED <<WORKER_PORT, PORT_TABLE, WORKER_TABLE, worker, listener, server_ch, rt,
                 h, lockWaiters, ret>>
  /\ UNCHANGED <<occupied, poisoned, fwd, resp, gateway, accept_off>>

\* the server_rx.recv() branch of select!
ListenerRecv(w) ==
  /\ Up
  /\ listener[w].st = "running"
  /\ ~Busy(listener[w].thr)
  /\ server_ch[w] # <<>>
  /\ LET item == Head(server_ch[w])
     IN /\ listener' = [listener EXCEPT
                          ![w].ok = IF item = "Start" THEN FALSE
                                    ELSE IF item = "Wait" THEN TRUE ELSE @,
                          ![w].st = IF item = "Exit" THEN "exited" ELSE @,
                          ![w].thr = IF item = "Exit" THEN 0 ELSE @]
        /\ server_ch' = [server_ch EXCEPT ![w] = IF item = "Exit" THEN <<>> ELSE Tail(@)]
  /\ UNCHANGED <<WORKER_PORT, PORT_TABLE, WORKER_TABLE, worker, stream, nconn, rt, h,
                 lockWaiters, ret>>
  /\ accept_off' = accept_off \ {w}
  /\ UNCHANGED <<occupied, poisoned, rejected, fwd, resp, gateway>>

\* ------------------------------------------------------ the stop tasks
\* the task spawned by stop_watch_runtime / stop_runtime, from its first poll:
\* the send on the runtime's own channel (capacity 1, nothing sent on it before)
\* completes at once, then the send of ServerStatus::Wait may suspend
TaskRun(r) ==
  /\ Up
  /\ rt[r].task = "spawned"
  /\ ~Busy(rt[r].taskThr)
  /\ LET w == rt[r].w
         wait == rt[r].taskWait
     IN /\ rt' = [rt EXCEPT ![r].sig = @ + 1,
                            ![r].task = IF wait /\ SendOutcome(w) = "full" THEN "wait" ELSE "done",
                            ![r].taskThr = IF wait /\ SendOutcome(w) = "full" THEN @ ELSE 0]
        /\ server_ch' = IF wait THEN Send(w, "Wait") ELSE server_ch
  /\ UNCHANGED <<WORKER_PORT, PORT_TABLE, WORKER_TABLE, worker, listener, stream, nconn,
                 h, lockWaiters, ret>>
  /\ UNCHANGED <<occupied, poisoned, rejected, fwd, resp, gateway, accept_off>>

\* server_tx_ref.send(ServerStatus::Wait).await completing for a suspended task
TaskResume(r) ==
  /\ Up
  /\ rt[r].task = "wait"
  /\ ~Busy(rt[r].taskThr)
  /\ SendOutcome(rt[r].w) # "full"
  /\ rt' = [rt EXCEPT ![r].task = "done", ![r].taskThr = 0]
  /\ server_ch' = Send(rt[r].w, "Wait")
  /\ UNCHANGED <<WORKER_PORT, PORT_TABLE, WORKER_TABLE, worker, listener, stream, nconn,
                 h, lockWaiters, ret>>
  /\ UNCHANGED <<occupied, poisoned, rejected, fwd, resp, gateway, accept_off>>

\* ------------------------------------------------------ the script runtimes
\* run_script: notify_rx.recv() wins the select!; run_with_watch: watch_rx
RtObserve(r) ==
  /\ Up
  /\ rt[r].st = "running"
  /\ rt[r].sig > 0
  /\ rt' = [rt EXCEPT ![r].st = "stopped"]
  /\ UNCHANGED <<WORKER_PORT, PORT_TABLE, WORKER_TABLE, worker, listener, server_ch,
                 stream, nconn, h, lockWaiters, ret>>
  /\ UNCHANGED <<occupied, poisoned, rejected, fwd, resp, gateway, accept_off>>

\* a runtime that ends on its own taking its handle out of the Worker
RtExit_reap(r) ==
  /\ Up
  /\ rt[r].st = "running"
  /\ rt' = [rt EXCEPT ![r].st = "stopped"]
  /\ worker' = [worker EXCEPT ![rt[r].w].worker_handlers =
                                 SelectSeq(@, LAMBDA q : q # r)]
  /\ UNCHANGED <<WORKER_PORT, PORT_TABLE, WORKER_TABLE, listener, server_ch,
                 stream, nconn, h, lockWaiters, ret>>
  /\ UNCHANGED <<occupied, poisoned, rejected, fwd, resp, gateway, accept_off>>

\* the runtime ends on its own: worker.run() returns, or an error ends the thread
RtExit(r) ==
  /\ Up
  /\ rt[r].st = "running"
  /\ rt' = [rt EXCEPT ![r].st = "stopped"]
  /\ UNCHANGED <<WORKER_PORT, PORT_TABLE, WORKER_TABLE, worker, listener, server_ch,
                 stream, nconn, h, lockWaiters, ret>>
  /\ UNCHANGED <<occupied, poisoned, rejected, fwd, resp, gateway, accept_off>>

\* a running runtime takes the next connection from the stream channel
RtRecv(r) ==
  /\ Up
  /\ rt[r].st = "running"
  /\ stream[rt[r].w] # <<>>
  /\ stream' = [stream EXCEPT ![rt[r].w] = Tail(@)]
  /\ UNCHANGED <<WORKER_PORT, PORT_TABLE, WORKER_TABLE, worker, listener, server_ch,
                 nconn, rt, h, lockWaiters, ret>>
  /\ UNCHANGED <<occupied, poisoned, rejected, fwd, resp, gateway, accept_off>>

\* the control routes api_routers mounts (restart_runtime and restart_pro_runtime
\* are handlers of the controller that no route is mounted for)
Route(t, thr) ==
  \/ api_start_runtime(t, thr)
  \/ api_start_debugger_runtime(t, thr)
  \/ api_start_pro_runtime(t, thr)
  \/ api_stop_runtime(t, thr)
  \/ api_stop_pro_runtime(t, thr)
  \/ api_exit(t, thr)
  \/ api_get_runtime_info(t, thr)

Handlers == \E t \in Tenants, thr \in Threads : Route(t, thr)

\* the listener tasks and the stop tasks, on the executor threads
Tasks ==
  \/ \E w \in Wids : ListenerBind(w) \/ ListenerRecv(w)
  \/ \E r \in RtIds : TaskRun(r) \/ TaskResume(r)

\* inbound connections and the script runtimes
Traffic ==
  \/ \E w \in Wids : ListenerAccept(w)
  \/ \E r \in RtIds : RtObserve(r) \/ RtExit(r) \/ RtRecv(r)

\* the other processes of the host
Env == \E p \in occupied : EnvRelease(p)

\* the gateway's control plane
Next ==
  \/ Handlers
  \/ ProbeFree
  \/ SendStartResume
  \/ SendExitResume
  \/ \E thr \in Threads : BlockOnLock(thr)
  \/ Tasks
  \/ Env

Spec == Init /\ [][Next]_vars

\* ------------------------------------------------------ direct calls on one Worker
\* One caller constructs a ScriptWorkerThread and calls its public methods one
\* after the other; the caller, the listener and the stop tasks share an executor
\* that is never blocked.
CallerThread == CHOOSE thr \in Threads : \A q \in Threads : thr <= q

call_new(t) ==
  /\ Up
  /\ h = Idle
  /\ FreeWid = Wids
  /\ get_next_port(WORKER_PORT) # NoPort
  /\ is_free(get_next_port(WORKER_PORT))
  /\ LET w == NewWid
         port == get_next_port(WORKER_PORT)
     IN /\ WORKER_PORT' = port
        /\ PORT_TABLE' = [PORT_TABLE EXCEPT ![t] = port]
        /\ listener' = [listener EXCEPT ![w] = [st |-> "spawned", ok |-> FALSE,
                                                thr |-> CallerThread]]
        /\ worker' = new(Cur, w, t, port).worker
  /\ UNCHANGED <<WORKER_TABLE, server_ch, stream, nconn, rt, h, lockWaiters, ret>>
  /\ UNCHANGED <<occupied, poisoned, rejected, fwd, resp, gateway, accept_off>>

Live(w) == Up /\ h = Idle /\ worker[w].st = "live"

\* a start method called directly; val is whether it started a runtime
CallStart(op, w, res, val) ==
  /\ Launch(op, worker[w].id, CallerThread, w, res, FALSE)
  /\ ret' = IF h' = Idle THEN Returned(op, val) ELSE ret
  /\ UNCHANGED <<WORKER_PORT, PORT_TABLE, listener, stream, nconn, lockWaiters>>
  /\ UNCHANGED <<occupied, poisoned, rejected, fwd, resp, gateway, accept_off>>

call_start_watch_runtime(w) ==
  /\ Live(w)
  /\ FreeRt(rt) # {}
  /\ CallStart("start_watch_runtime", w, start_watch_runtime(Cur, w), TRUE)

call_start_runtime(w) ==
  /\ Live(w)
  /\ FreeRt(rt) # {}
  /\ CallStart("start_runtime", w, start_runtime(Cur, w), TRUE)

call_start_debugger_runtime(w) ==
  /\ Live(w)
  /\ worker[w].worker_handlers = <<>> => FreeRt(rt) # {}
  /\ CallStart("start_debugger_runtime", w, start_debugger_runtime(Cur, w),
               worker[w].worker_handlers = <<>>)

call_stop_watch_runtime(w) ==
  /\ Live(w)
  /\ LET S1 == stop_watch_runtime(Cur, w, CallerThread)
     IN worker' = S1.worker /\ rt' = S1.rt
  /\ ret' = Returned("stop_watch_runtime", TRUE)
  /\ UNCHANGED <<WORKER_PORT, PORT_TABLE, WORKER_TABLE, listener, server_ch, stream,
                 nconn, h, lockWaiters>>
  /\ UNCHANGED <<occupied, poisoned, rejected, fwd, resp, gateway, accept_off>>

call_stop_runtime(w) ==
  /\ Live(w)
  /\ LET S1 == stop_runtime(Cur, w, CallerThread)
     IN worker' = S1.worker /\ rt' = S1.rt
  /\ ret' = Returned("stop_runtime", stop_runtime_ret(Cur, w))
  /\ UNCHANGED <<WORKER_PORT, PORT_TABLE, WORKER_TABLE, listener, server_ch, stream,
                 nconn, h, lockWaiters>>
  /\ UNCHANGED <<occupied, poisoned, rejected, fwd, resp, gateway, accept_off>>

Calls ==
  \/ \E t \in Tenants : call_new(t)
  \/ \E w \in Wids :
       \/ call_start_watch_runtime(w)
       \/ call_start_runtime(w)
       \/ call_start_debugger_runtime(w)
       \/ call_stop_watch_runtime(w)
       \/ call_stop_runtime(w)

WorkerNext ==
  \/ Calls
  \/ SendStartResume
  \/ Tasks
  \/ Traffic
  \/ Env

WorkerSpec == Init /\ [][WorkerNext]_vars

\* ------------------------------------------------------ the listener's states
Accepting(w) == listener[w].st = "running" /\ ~listener[w].ok
Rejecting(w) == listener[w].st = "running" /\ listener[w].ok
Terminated(w) == listener[w].st \in {"exited", "failed"}

\* the stop tasks of Worker w that have not finished
PendingTasks(w) == {r \in RtIds : rt[r].w = w /\ rt[r].task \in {"spawned", "wait"}}
\* no call in progress, no ServerStatus message in the channel of w or still to
\* be sent by a stop task
Quiet(w) == h = Idle /\ server_ch[w] = <<>> /\ PendingTasks(w) = {}
\* no start_* call has been made on w
Fresh(w) == \A r \in RtIds : rt[r].w # w

\* C1: in every state of a live Worker with its listener bound and no
\* ServerStatus message pending, the listener forwards connections (ok = false)
\* if and only if the Worker holds an instance handle or watch_tx is present.
C1_CoreInvariant ==
  \A w \in Wids :
    (worker[w].st = "live" /\ listener[w].st = "running" /\ Quiet(w))
      => (Accepting(w) <=> Active(worker[w]))

\* C3: after construction and before any start_* call the bound listener rejects:
\* ok is set, and nothing is placed on the stream channel.
C3_InitialRejecting ==
  \A w \in Wids :
    (worker[w].st = "live" /\ listener[w].st = "running" /\ Fresh(w))
      => (Rejecting(w) /\ stream[w] = <<>>)

\* the last call that returned was a start_* call that started a runtime
StartReturned ==
  /\ ret.op \in {"start_watch_runtime", "start_runtime", "start_debugger_runtime"}
  /\ ret.val

\* C4: once a start_watch_runtime or start_runtime call (or a start_debugger_runtime
\* call that took effect) has returned and every ServerStatus message issued so
\* far has been consumed, the bound listener forwards connections.
C4_AcceptingAfterStart ==
  \A w \in Wids :
    (worker[w].st = "live" /\ listener[w].st = "running" /\ Quiet(w) /\ StartReturned)
      => Accepting(w)

\* the stop tasks spawned by this step that will send ServerStatus::Wait
NewWaitTasks ==
  {r \in RtIds : rt[r].task = "none" /\ rt'[r].task = "spawned" /\ rt'[r].taskWait}

\* a stop method called directly on w
StopCall(w) == call_stop_watch_runtime(w) \/ call_stop_runtime(w)

\* C5 (first half): when the Worker holds no instance handle and no watch_tx after
\* a stop call, the listener is eventually Rejecting, unless a start follows.
C5_EventuallyRejecting ==
  \A w \in Wids :
    (worker[w].st = "live" /\ listener[w].st = "running" /\ h = Idle
       /\ ret.op \in {"stop_watch_runtime", "stop_runtime"} /\ ~Active(worker[w]))
      ~> (Rejecting(w) \/ Active(worker[w]))

\* C5 (second half): a stop call that leaves an instance handle or watch_tx
\* behind issues no ServerStatus::Wait.
C5_NoWaitWhileActive ==
  [][\A w \in Wids :
       (StopCall(w) /\ listener[w].st = "running" /\ Active(worker'[w]))
         => NewWaitTasks = {}]_vars

\* C5: both halves.
C5_StopRejectsOnlyWhenIdle == C5_EventuallyRejecting /\ C5_NoWaitWhileActive

\* the production instances of w started and not yet stopped
OpenInstances(w) ==
  {r \in RtIds : rt[r].kind = "pro" /\ rt[r].w = w /\ rt[r].task = "none"}
MaxOf(S) == CHOOSE x \in S : \A y \in S : y <= x

\* C7: a stop_runtime call returns true and spawns the stop task of the most
\* recently started instance not yet stopped (and of no other runtime); when
\* every started instance has been stopped it returns false and spawns nothing.
C7_LifoStop ==
  [][\A w \in Wids :
       call_stop_runtime(w) =>
         IF OpenInstances(w) = {}
           THEN ret'.val = FALSE /\ rt' = rt
           ELSE /\ ret'.val = TRUE
                /\ rt'[MaxOf(OpenInstances(w))].task = "spawned"
                /\ \A r \in RtIds \ {MaxOf(OpenInstances(w))} : rt'[r] = rt[r]]_vars

\* two starts, two stops, and a third stop_runtime that returned false
C7_Witness ==
  \E w \in Wids :
    /\ ret = [op |-> "stop_runtime", val |-> FALSE]
    /\ Cardinality({r \in RtIds : rt[r].kind = "pro" /\ rt[r].w = w
                                   /\ rt[r].task # "none"}) >= 2

\* the dev-mode runtimes of w that no stop task has been spawned for
UncancelledDev(w) ==
  {r \in RtIds : rt[r].kind = "dev" /\ rt[r].w = w /\ rt[r].task = "none"}

\* C8: start_watch_runtime called while watch_tx is present changes nothing: no
\* runtime is spawned, no ServerStatus message is sent, watch_tx stays, and one
\* un-cancelled dev-mode runtime remains.
C8_IdempotentDevStart ==
  [][\A w \in Wids :
       (call_start_watch_runtime(w) /\ worker[w].watch_tx # NoRt) =>
         /\ UNCHANGED <<worker, rt, server_ch>>
         /\ h' = Idle
         /\ Cardinality(UncancelledDev(w)') = 1]_vars

\* C9: start_debugger_runtime called while an instance handle is held starts no
\* runtime, leaves the Worker (instance list, open_debug_server) unchanged and
\* sends no ServerStatus message.
C9_DebuggerExclusive ==
  [][\A w \in Wids :
       (call_start_debugger_runtime(w) /\ worker[w].worker_handlers # <<>>) =>
         (UNCHANGED <<worker, rt, server_ch>> /\ h' = Idle)]_vars

\* start_debugger_runtime has returned without effect on a Worker that holds a handle
C9_Witness ==
  \E w \in Wids :
    /\ ret = [op |-> "start_debugger_runtime", val |-> FALSE]
    /\ worker[w].worker_handlers # <<>>

\* C10: at most one running production instance of a Worker has the inspector open.
C10_OneInspector ==
  \A w \in Wids :
    Cardinality({r \in RtIds : rt[r].kind = "pro" /\ rt[r].w = w /\ rt[r].inspect
                                /\ rt[r].st = "running"}) <= 1

\* the listener, the stop tasks and a suspended send are polled by an executor
\* that is not blocked
Fairness ==
  /\ \A w \in Wids : WF_vars(ListenerBind(w)) /\ WF_vars(ListenerRecv(w))
  /\ \A r \in RtIds : WF_vars(TaskRun(r)) /\ WF_vars(TaskResume(r))
  /\ WF_vars(SendStartResume)
  /\ WF_vars(SendExitResume)
  /\ WF_vars(ProbeFree)

FairWorkerSpec == WorkerSpec /\ Fairness

\* C2: the ports handed to the Workers constructed so far are pairwise distinct,
\* and no two tenants in PORT_TABLE share a port.
C2_PortUniqueness ==
  /\ \A w1, w2 \in Wids :
       (w1 # w2 /\ worker[w1].st # "none" /\ worker[w2].st # "none")
         => worker[w1].port # worker[w2].port
  /\ \A t1, t2 \in Tenants :
       (t1 # t2 /\ PORT_TABLE[t1] # NoPort /\ PORT_TABLE[t2] # NoPort)
         => PORT_TABLE[t1] # PORT_TABLE[t2]

\* two tenants registered at once, each with its Worker and its port
C2_Witness ==
  \E t1, t2 \in Tenants :
    /\ t1 # t2
    /\ WORKER_TABLE[t1] # NoWorker /\ WORKER_TABLE[t2] # NoWorker
    /\ PORT_TABLE[t1] # NoPort /\ PORT_TABLE[t2] # NoPort

\* this step is the return of the exit handler for tenant t, which was registered
ExitReturns(t) ==
  \/ /\ \E thr \in Threads : api_exit(t, thr)
     /\ WORKER_TABLE[t] # NoWorker
     /\ h' = Idle
  \/ SendExitResume /\ h.t = t

\* C6 (tables): when exit returns, neither table holds the tenant.
C6_TablesCleared ==
  [][\A t \in Tenants :
       ExitReturns(t) => (WORKER_TABLE'[t] = NoWorker /\ PORT_TABLE'[t] = NoPort)]_vars

\* the exit that dropped Worker w has returned
Exited(w) == worker[w].st = "dropped" /\ ~(h.pc = "send_exit" /\ h.w = w)

\* C6 (termination): after exit has returned, the listener of the dropped Worker
\* eventually leaves its loop.
C6_EventuallyTerminated == \A w \in Wids : Exited(w) ~> Terminated(w)

\* C6 (finality): a listener that has left its loop stays out of it, and accepts
\* and forwards nothing more.
C6_TerminatedForever ==
  [][\A w \in Wids :
       Terminated(w) => (Terminated(w)' /\ nconn'[w] = nconn[w] /\ stream'[w] = stream[w])]_vars

\* C6: after exit returns the tables hold no entry for the tenant, its listener
\* eventually terminates, and once terminated it accepts nothing.
C6_ExitTerminates == C6_TablesCleared /\ C6_EventuallyTerminated /\ C6_TerminatedForever

FairSpec == Spec /\ Fairness

\* ------------------------------------------------------ the reverse proxy
\* A request is [product_code, uri]: the value of its product_code header
\* (NoHeader when it carries none) and its target, the sequence of the path, and
\* after a "?" the query.
NoHeader == "<none>"
Headers == Tenants \cup {"c", NoHeader}
Uris == {<<"/">>, <<"/foo", "?", "x=1">>, <<"/foo", "?">>}
Requests == [product_code : Headers, uri : Uris]

\* req.uri().path() and req.uri().query()
QueryAt(uri) ==
  IF \E i \in 1 .. Len(uri) : uri[i] = "?"
    THEN CHOOSE i \in 1 .. Len(uri) : uri[i] = "?" /\ \A j \in 1 .. i - 1 : uri[j] # "?"
    ELSE Len(uri) + 1
uri_path(uri) == SubSeq(uri, 1, QueryAt(uri) - 1)
uri_query(uri) ==
  IF QueryAt(uri) <= Len(uri)
    THEN [some |-> TRUE, v |-> SubSeq(uri, QueryAt(uri) + 1, Len(uri))]
    ELSE [some |-> FALSE, v |-> <<>>]

\* Url::parse("http://127.0.0.1:{port}") with set_path and set_query applied,
\* and its as_str()
new_url(port, path, query) == [port |-> port, path |-> path, query |-> query]
as_str(url) ==
  <<"http://127.0.0.1:", url.port>> \o url.path
    \o (IF url.query.some THEN <<"?">> \o url.query.v ELSE <<>>)

\* hand_port.get(&id)
PortOf(table, id) == IF id \in DOMAIN table THEN table[id] ELSE NoPort

NotFound(body) == [status |-> 404, body |-> body, port |-> NoPort, url |-> <<>>]

\* forward without its test for the header
forward_no_header_check(req, table) ==
  IF PortOf(table, req.product_code) = NoPort
    THEN NotFound(<<req.product_code, " service not found">>)
    ELSE [status |-> 0, body |-> <<>>, port |-> PortOf(table, req.product_code),
          url |-> as_str(new_url(PortOf(table, req.product_code), uri_path(req.uri),
                                 uri_query(req.uri)))]

\* forward without set_query
forward_path_only(req, table) ==
  IF req.product_code = NoHeader
    THEN NotFound(<<"product_code not found">>)
    ELSE IF PortOf(table, req.product_code) = NoPort
      THEN NotFound(<<req.product_code, " service not found">>)
      ELSE [status |-> 0, body |-> <<>>, port |-> PortOf(table, req.product_code),
            url |-> as_str(new_url(PortOf(table, req.product_code), uri_path(req.uri),
                                   [some |-> FALSE, v |-> <<>>]))]

\* forward, up to forwarded_req.send_stream(payload): the answer it returns at
\* once (status 404), or the upstream URL it sends the request to (status 0)
forward(req, table) ==
  IF req.product_code = NoHeader
    THEN NotFound(<<"product_code not found">>)
    ELSE IF PortOf(table, req.product_code) = NoPort
      THEN NotFound(<<req.product_code, " service not found">>)
      ELSE [status |-> 0, body |-> <<>>, port |-> PortOf(table, req.product_code),
            url |-> as_str(new_url(PortOf(table, req.product_code), uri_path(req.uri),
                                   uri_query(req.uri)))]

\* the default service handling req on thread thr: it answers at once, or
\* suspends in send_stream with the PORT_TABLE read guard still held
ForwardCall(req, thr) ==
  /\ Up
  /\ ~Busy(thr)
  /\ LET f == forward(req, PORT_TABLE)
     IN IF f.status = 404
          THEN /\ resp' = [status |-> f.status, body |-> f.body]
               /\ fwd' = fwd
          ELSE /\ Cardinality(fwd) < MaxForwards
               /\ fwd' = fwd \cup {[t |-> req.product_code, uri |-> req.uri,
                                     port |-> f.port, url |-> f.url]}
               /\ resp' = resp
  /\ UNCHANGED <<WORKER_PORT, PORT_TABLE, WORKER_TABLE, worker, listener, server_ch,
                 stream, nconn, rt, h, lockWaiters, ret, occupied, poisoned, rejected,
                 gateway, accept_off>>

\* send_stream completes (with the upstream's response or with an error), the
\* handler returns and drops its read guard
ForwardReturn(f) ==
  /\ Up
  /\ f \in fwd
  /\ fwd' = fwd \ {f}
  /\ UNCHANGED <<WORKER_PORT, PORT_TABLE, WORKER_TABLE, worker, listener, server_ch,
                 stream, nconn, rt, h, lockWaiters, ret, occupied, poisoned, rejected,
                 resp, gateway, accept_off>>

Proxy ==
  \/ \E req \in Requests, thr \in Threads : ForwardCall(req, thr)
  \/ \E f \in fwd : ForwardReturn(f)

\* the gateway with its proxy, for the tenants' dev-mode start and exit
ProxyNext ==
  \/ \E t \in Tenants, thr \in Threads : api_start_runtime(t, thr) \/ api_exit(t, thr)
  \/ SendExitResume
  \/ PortWriteResume
  \/ Tasks
  \/ Proxy

\* start-up with no port above the cursor occupied
ProxyInit == Init /\ occupied = {}

ProxySpec == ProxyInit /\ [][ProxyNext]_vars

PathAndQuery(url) == SubSeq(url, 3, Len(url))

CursorStarts == {BasePort, MaxPort - 1, MaxPort}

AllocNext ==
  \/ \E t \in Tenants, thr \in Threads :
       \/ api_start_runtime(t, thr)
       \/ api_stop_runtime(t, thr)
       \/ api_exit(t, thr)
  \/ ProbeFree
  \/ SendStartResume
  \/ SendExitResume
  \/ \E thr \in Threads : BlockOnLock(thr) \/ PoisonedLock(thr)
  \/ Tasks
  \/ Env

AllocInit == \E cursor \in CursorStarts : InitAt(cursor)

AllocSpec == AllocInit /\ [][AllocNext]_vars

FairAllocSpec == AllocSpec /\ Fairness

\* the candidates get_next_port can come to within one run, and the lowest of
\* them that is_free reports free
Candidates(cursor) == {p \in cursor + 1 .. cursor + MaxWorkers + 1 : p <= MaxPort}
LowestFree(cursor) ==
  IF \E p \in Candidates(cursor) : is_free(p)
    THEN CHOOSE p \in Candidates(cursor) :
           is_free(p) /\ \A q \in Candidates(cursor) : q < p => ~is_free(q)
    ELSE NoPort

\* C16 (success): a step that moves the cursor moves it to the lowest free port
\* above it, and PORT_TABLE maps a tenant to that port.
C16_CursorAndTable ==
  [][WORKER_PORT' # WORKER_PORT =>
       /\ WORKER_PORT' = LowestFree(WORKER_PORT)
       /\ \E t \in Tenants : PORT_TABLE'[t] = WORKER_PORT']_vars

\* C16 (skipping): a get_next_port call that has found its candidate occupied
\* goes on to return the lowest port above the cursor that is free (unless the
\* ports change under it).
C16_SkipsOccupied ==
  \A p \in BasePort + 1 .. BasePort + MaxWorkers + 1 :
    (h.pc = "probing" /\ LowestFree(WORKER_PORT) = p)
      ~> \/ h.pc # "probing" /\ WORKER_PORT = p
         \/ h.pc = "probing" /\ LowestFree(WORKER_PORT) # p

\* C16: get_next_port returns the lowest free port above the cursor, skipping
\* occupied candidates, and leaves the cursor and the PORT_TABLE entry at it.
C16_LowestFreePort == C16_CursorAndTable /\ C16_SkipsOccupied

\* C17: while a port above the cursor is free, a get_next_port call in its probe
\* loop eventually leaves the loop (and with it releases WORKER_PORT), also when
\* the port right after the cursor is occupied.
C17_ProbeTerminates ==
  (h.pc = "probing" /\ LowestFree(WORKER_PORT) # NoPort) ~> h.pc # "probing"

\* C18: a start command for a new tenant with the cursor at the last port leaves
\* the cursor, PORT_TABLE and WORKER_TABLE as they were and poisons no lock.
C18_ExhaustionLocal ==
  [][\A t \in Tenants, thr \in Threads :
       (api_start_runtime(t, thr) /\ WORKER_TABLE[t] = NoWorker
          /\ next(WORKER_PORT) = NoPort)
         => (UNCHANGED <<WORKER_PORT, PORT_TABLE, WORKER_TABLE>> /\ poisoned' = {})]_vars

\* ------------------------------------------------------ the port table and teardown
\* the live Worker of tenant t whose listener task is bound or about to bind
Serving(t) ==
  {w \in Wids : worker[w].id = t /\ worker[w].st = "live"
                  /\ listener[w].st \in {"spawned", "running"}}

\* C11: PORT_TABLE holds an entry for a tenant if and only if a live Worker of
\* the tenant has a listener that is bound (or still on its way to the bind): no
\* entry stays behind a listener whose bind failed, and the entry goes when the
\* Worker is destroyed.
C11_PortEntryIffListener ==
  \A t \in Tenants : PORT_TABLE[t] # NoPort <=> Serving(t) # {}

\* the runtimes of Worker w
RuntimesOf(w) == {r \in RtIds : rt[r].w = w /\ rt[r].kind # "none"}

\* C12 (port first): once a Worker is destroyed, PORT_TABLE no longer maps its
\* tenant to its port.
C12_PortRemovedFirst ==
  \A w \in Wids :
    worker[w].st = "dropped" => PORT_TABLE[worker[w].id] # worker[w].port

\* C12 (instances before dev mode): when the dev-mode runtime of a destroyed
\* Worker receives its cancellation, every production instance of the Worker
\* has received its termination signal.
C12_InstancesBeforeDev ==
  [][\A r \in RtIds :
       (TaskRun(r) /\ rt[r].kind = "dev" /\ worker[rt[r].w].st = "dropped")
         => \A q \in RuntimesOf(rt[r].w) : rt[q].kind = "pro" => rt[q].sig > 0]_vars

\* C12 (Exit last): when ServerStatus::Exit reaches the listener, every runtime
\* of the Worker has received its signal.
C12_ExitLast ==
  [][\A w \in Wids :
       (ListenerRecv(w) /\ Head(server_ch[w]) = "Exit")
         => \A r \in RuntimesOf(w) : rt[r].sig > 0]_vars

\* C12: destruction removes the PORT_TABLE entry, then signals every production
\* instance, then cancels the dev-mode runtime, then Exit reaches the listener.
C12_DestructionOrder ==
  /\ []C12_PortRemovedFirst
  /\ C12_InstancesBeforeDev
  /\ C12_ExitLast

\* C13: a connection accepted while the listener is Rejecting is written the
\* rejection payload and is not placed on the stream channel, the only way to a
\* script runtime.
C13_RejectedNeverQueued ==
  [][\A w \in Wids :
       Rejecting(w) =>
         /\ Len(stream'[w]) <= Len(stream[w])
         /\ nconn'[w] > nconn[w] => rejected'[w] = rejected[w] + 1]_vars

\* a connection was rejected, and the listener has since gone back to Accepting
\* with a runtime of the Worker running and nothing queued for it
C13_Witness ==
  \E w \in Wids :
    /\ rejected[w] > 0
    /\ Accepting(w)
    /\ stream[w] = <<>>
    /\ \E r \in RuntimesOf(w) : rt[r].st = "running" /\ rt[r].task = "none"

\* C19: no tenant is registered in WORKER_TABLE or PORT_TABLE with a Worker
\* whose listener failed to bind (the start command that constructed the Worker
\* reports the failure instead of registering the tenant).
C19_BindFailureReported ==
  \A t \in Tenants, w \in Wids :
    (listener[w].st = "failed" /\ worker[w].id = t /\ worker[w].st = "live")
      => (WORKER_TABLE[t] # w /\ PORT_TABLE[t] # worker[w].port)

\* C20: no control handler holds WORKER_TABLE while it is suspended in the
\* send of ServerStatus::Start inside start_watch_runtime or start_runtime.
C20_NoLockAcrossSend == ~(h.pc = "send_start")

\* ------------------------------------------------------ tenants and locks
\* the request waiting in WORKER_TABLE.lock() on thread thr is granted the lock
\* and its handler runs
Acquire(thr) == thr \in lockWaiters /\ \E t \in Tenants : Route(t, thr)

\* the gateway with its tasks polled, and the lock granted to a waiting request
\* once it is free
FairLockSpec == Spec /\ Fairness /\ \A thr \in Threads : WF_vars(Acquire(thr))

\* C21: a control request that has to wait for WORKER_TABLE, because a call for
\* a tenant (whichever) is suspended or looping with the lock held, is
\* eventually granted the lock: no call on one tenant keeps the requests for
\* another tenant from completing.
C21_TenantIndependence ==
  \A thr \in Threads : (thr \in lockWaiters) ~> (thr \notin lockWaiters)

\* C22: no handler is ever blocked in PORT_TABLE.write() behind a proxy request
\* that waits for its upstream: forward does not keep its read guard across the
\* await, so a start (get_next_port) or an exit (Drop) takes the write lock
\* while proxy requests are in flight.
C22_PortLockNotAcrossAwait == ~(fwd # {} /\ h.pc = "port_write")

\* ------------------------------------------------------ stopping
\* the stop tasks spawned by this step
NewTasks == {r \in RtIds : rt[r].task = "none" /\ rt'[r].task = "spawned"}

\* C23: a stop_runtime or stop_watch_runtime call returns in the step it is
\* made: it sends nothing on the ServerStatus channel, signals no runtime and
\* waits for none to finish; what it leaves behind is at most one spawned task,
\* not yet run, that does the signalling.
C23_StopReturnsAtOnce ==
  [][\A w \in Wids :
       StopCall(w) =>
         /\ h' = Idle
         /\ ret'.op \in {"stop_watch_runtime", "stop_runtime"}
         /\ server_ch' = server_ch
         /\ \A r \in RtIds : rt'[r].sig = rt[r].sig /\ rt'[r].st = rt[r].st
         /\ Cardinality(NewTasks) <= 1
         /\ \A r \in RtIds \ NewTasks : rt'[r] = rt[r]]_vars

\* stop_runtime has returned true while the instance it popped is still running
\* unsignalled, its stop task is yet to run, and the ServerStatus channel is full
C23_Witness ==
  /\ ret = [op |-> "stop_runtime", val |-> TRUE]
  /\ \E r \in RtIds :
       /\ rt[r].task = "spawned" /\ rt[r].taskWait
       /\ rt[r].sig = 0 /\ rt[r].st = "running"
       /\ Len(server_ch[rt[r].w]) = ChanCap

\* C24: the task spawned by stop_runtime always completes: its signal to the
\* runtime is delivered or dropped at once whatever the runtime is doing, and
\* its send of ServerStatus::Wait ends, also when the listener has terminated.
C24_StopTaskCompletes ==
  \A r \in RtIds :
    (rt[r].kind = "pro" /\ rt[r].task = "spawned") ~> (rt[r].task = "done")

\* the runtimes Worker w holds a handle of: its instances, and its dev-mode runtime
Held(w) ==
  {worker[w].worker_handlers[i] : i \in 1 .. Len(worker[w].worker_handlers)}
    \cup (IF worker[w].watch_tx # NoRt THEN {worker[w].watch_tx} ELSE {})

\* C25 (the method): called on any live Worker, from any thread, stop_all_runtime
\* ends with the instance list empty and watch_tx absent, having spawned the
\* stop task of every runtime the Worker held a handle of, one each, and of no
\* other.
C25_StopAllResult ==
  \A w \in Wids, thr \in Threads :
    worker[w].st = "live" =>
      LET S1 == stop_all_runtime(Cur, w, thr)
      IN /\ S1.worker[w].worker_handlers = <<>>
         /\ S1.worker[w].watch_tx = NoRt
         /\ Cardinality(Held(w)) =
              Len(worker[w].worker_handlers) + (IF worker[w].watch_tx # NoRt THEN 1 ELSE 0)
         /\ \A r \in Held(w) : rt[r].task = "none" /\ S1.rt[r].task = "spawned"
         /\ \A r \in RtIds \ Held(w) : S1.rt[r] = rt[r]
         /\ \A v \in Wids \ {w} : S1.worker[v] = worker[v]

\* C25 (its one call, in Drop): the step that destroys a Worker leaves it with
\* no handle, and every runtime it held with a stop task.
C25_StopAllInDrop ==
  [][\A w \in Wids :
       (worker[w].st = "live" /\ worker'[w].st = "dropped") =>
         /\ worker'[w].worker_handlers = <<>> /\ worker'[w].watch_tx = NoRt
         /\ \A r \in Held(w) : rt'[r].task = "spawned"
         /\ \A r \in RtIds : rt'[r].sig <= 1]_vars

\* C25: stop_all_runtime terminates in every Worker state with nothing held,
\* and dispatches the dev-mode cancellation and one signal per handle held.
C25_StopAllRuntime == []C25_StopAllResult /\ C25_StopAllInDrop

\* a destroyed Worker whose two runtimes both have their stop task pending
C25_Witness ==
  \E w \in Wids :
    /\ worker[w].st = "dropped"
    /\ Cardinality({r \in RuntimesOf(w) : rt[r].task = "spawned" /\ rt[r].sig = 0}) = 2

\* C26: an exit handler that is inside send_blocking(ServerStatus::Exit)
\* eventually leaves it and returns, also when the channel holds an unconsumed
\* Start or Wait and the listener is a task of the handler's own thread.
C26_TeardownCompletes == (h.op = "exit" /\ h.pc = "send_exit") ~> (h = Idle)

\* the listener loops of tenant t that have not terminated
Listening(t) ==
  {w \in Wids : worker[w].id = t /\ listener[w].st \in {"spawned", "running"}}

\* C27: at most one listener loop of a tenant is spawned or running at any
\* time, also right after an exit followed by a new start of the tenant.
C27_OneListenerPerTenant == \A t \in Tenants : Cardinality(Listening(t)) <= 1

\* ------------------------------------------------------ the gateway as a whole
\* Every control route and the proxy, served by one executor thread, with no
\* port above the cursor occupied. (An exit that blocks in send_blocking stays
\* blocked here: the listener is a task of the same thread.)
GatewayRequests == {req \in Requests : req.product_code \in Tenants /\ req.uri = <<"/">>}

GatewayProxy ==
  \/ \E req \in GatewayRequests : ForwardCall(req, CallerThread)
  \/ \E f \in fwd : ForwardReturn(f)

GatewayNext ==
  \/ \E t \in Tenants : Route(t, CallerThread)
  \/ SendStartResume
  \/ PortWriteResume
  \/ Tasks
  \/ GatewayProxy

GatewaySpec == ProxyInit /\ [][GatewayNext]_vars

\* a start-type request for tenant t, or the rest of one that had to wait
StartRoute(t, thr) ==
  \/ api_start_runtime(t, thr)
  \/ api_start_debugger_runtime(t, thr)
  \/ api_start_pro_runtime(t, thr)
StartStep(t) ==
  \/ \E thr \in Threads : StartRoute(t, thr)
  \/ (ProbeFree \/ PortWriteResume \/ SendStartResume) /\ h.op # "exit" /\ h.t = t
ExitStep(t) ==
  \/ \E thr \in Threads : api_exit(t, thr)
  \/ PortWriteResume /\ h.op = "exit" /\ h.t = t

\* C28 (creation): a Worker is constructed, a port assigned and a WORKER_TABLE
\* entry made only in a start-type command for a tenant absent from WORKER_TABLE.
C28_CreatedByStart ==
  [][\A t \in Tenants :
       (\/ \E w \in Wids : worker[w].st = "none" /\ worker'[w].st # "none" /\ worker'[w].id = t
        \/ WORKER_TABLE'[t] \notin {WORKER_TABLE[t], NoWorker}
        \/ PORT_TABLE'[t] \notin {PORT_TABLE[t], NoPort})
         => (StartStep(t) /\ WORKER_TABLE[t] = NoWorker)]_vars

\* C28 (removal): an entry leaves WORKER_TABLE or PORT_TABLE only in exit.
C28_RemovedByExit ==
  [][\A t \in Tenants :
       (\/ WORKER_TABLE[t] # NoWorker /\ WORKER_TABLE'[t] = NoWorker
        \/ PORT_TABLE[t] # NoPort /\ PORT_TABLE'[t] = NoPort)
         => ExitStep(t)]_vars

\* C28 (registered tenant): a start-type command for a tenant in WORKER_TABLE
\* constructs no Worker and leaves the tables and the port cursor as they were.
C28_StartOnRegistered ==
  [][\A t \in Tenants, thr \in Threads :
       (StartRoute(t, thr) /\ WORKER_TABLE[t] # NoWorker) =>
         /\ UNCHANGED <<WORKER_TABLE, PORT_TABLE, WORKER_PORT, listener>>
         /\ \A w \in Wids : worker'[w].st = worker[w].st /\ worker'[w].port = worker[w].port]_vars

\* C28 (the other operations): stop, pro-stop, info and the proxy change
\* neither table.
C28_OthersKeepTables ==
  [][(\/ \E t \in Tenants, thr \in Threads :
           api_stop_runtime(t, thr) \/ api_stop_pro_runtime(t, thr)
             \/ api_get_runtime_info(t, thr)
      \/ GatewayProxy) => UNCHANGED <<WORKER_TABLE, PORT_TABLE>>]_vars

\* C28: Workers come from start-type commands for absent tenants and go only
\* by exit; nothing else touches the tables.
C28_WorkerLifecycle ==
  C28_CreatedByStart /\ C28_RemovedByExit /\ C28_StartOnRegistered /\ C28_OthersKeepTables

\* a registered tenant that was started a second time and stopped once, with a
\* proxy request for it in flight, still on its first Worker and port
C28_Witness ==
  \E t \in Tenants :
    LET w == WORKER_TABLE[t]
    IN /\ w # NoWorker
       /\ PORT_TABLE[t] = worker[w].port
       /\ Cardinality(RuntimesOf(w)) = 2
       /\ \E r \in RuntimesOf(w) : rt[r].task # "none"
       /\ \E f \in fwd : f.t = t
       /\ \A v \in Wids \ {w} : worker[v].st = "none"

\* ------------------------------------------------------ handles and liveness
\* C29: the instance list of a Worker grows by one in a start_runtime call
\* (made directly or by start_debugger_runtime), shrinks by one in a
\* stop_runtime call that returns true, and changes in no other step; a
\* runtime that ends, on its own or on its signal, leaves every Worker, every
\* listener and the ServerStatus channels as they are.
C29_HandlesNotLiveness ==
  [][/\ \A w \in Wids :
          LET n == Len(worker[w].worker_handlers)
              m == Len(worker'[w].worker_handlers)
          IN /\ m # n =>
                  \/ (call_start_runtime(w) \/ call_start_debugger_runtime(w)) /\ m = n + 1
                  \/ call_stop_runtime(w) /\ m = n - 1
             /\ call_start_runtime(w) => m = n + 1
             /\ call_stop_runtime(w) => (m = n - 1 <=> ret'.val)
     /\ \A r \in RtIds :
          rt'[r].st # rt[r].st /\ rt[r].st = "running"
            => UNCHANGED <<worker, listener, server_ch>>]_vars

\* an instance has ended on its own, unsignalled and with no stop task, and
\* its handle is still in the list of its Worker, whose listener forwards
C29_Witness ==
  \E r \in RtIds :
    /\ rt[r].kind = "pro" /\ rt[r].st = "stopped" /\ rt[r].sig = 0 /\ rt[r].task = "none"
    /\ \E i \in 1 .. Len(worker[rt[r].w].worker_handlers) :
         worker[rt[r].w].worker_handlers[i] = r
    /\ Accepting(rt[r].w)

\* ------------------------------------------------------ tolerant no-ops
\* C30 (the methods): on a live Worker without dev-mode channel
\* stop_watch_runtime changes nothing and spawns no task, and so does
\* stop_runtime, returning false, on one with an empty instance list.
C30_MethodNoOps ==
  \A w \in Wids, thr \in Threads :
    worker[w].st = "live" =>
      /\ worker[w].watch_tx = NoRt => stop_watch_runtime(Cur, w, thr) = Cur
      /\ worker[w].worker_handlers = <<>> =>
           (stop_runtime(Cur, w, thr) = Cur /\ ~stop_runtime_ret(Cur, w))

\* C30 (through the routes): a stop for a registered tenant without dev mode
\* and a pro-stop for one without instances change no Worker, spawn no task and
\* send no ServerStatus message.
C30_RouteNoOps ==
  [][\A t \in Tenants, thr \in Threads :
       LET w == WORKER_TABLE[t]
       IN w # NoWorker =>
            /\ (api_stop_runtime(t, thr) /\ worker[w].watch_tx = NoRt)
                 => UNCHANGED <<worker, rt, server_ch, listener>>
            /\ (api_stop_pro_runtime(t, thr) /\ worker[w].worker_handlers = <<>>)
                 => UNCHANGED <<worker, rt, server_ch, listener>>]_vars

\* C30 (absent tenant): stop, pro-stop, exit and info for a tenant that is not
\* in WORKER_TABLE leave the tables, the cursor, the Workers and the channels
\* as they are.
C30_AbsentTenant ==
  [][\A t \in Tenants, thr \in Threads :
       WORKER_TABLE[t] = NoWorker =>
         ((api_stop_runtime(t, thr) \/ api_stop_pro_runtime(t, thr)
             \/ api_exit(t, thr) \/ api_get_runtime_info(t, thr))
           => UNCHANGED <<WORKER_TABLE, PORT_TABLE, WORKER_PORT, worker, rt, server_ch,
                          listener, h>>)]_vars

\* C30 (the answers): for an absent tenant the four commands answer code 0,
\* info with count 0 and exit with "The process has ended ".
C30_AbsentReplies ==
  \A t \in Tenants :
    WORKER_TABLE[t] = NoWorker =>
      /\ \A op \in {"stop", "pro_stop", "exit", "info"} : Reply(op, t).code = 0
      /\ Reply("info", t).data.count = 0
      /\ Reply("exit", t).data = "The process has ended "

\* C30: the stop methods and the stop, pro-stop, exit and info commands are
\* no-ops where there is nothing to act on.
C30_TolerantNoOps ==
  []C30_MethodNoOps /\ C30_RouteNoOps /\ C30_AbsentTenant /\ []C30_AbsentReplies

\* one tenant is registered on a Worker that has been stopped down to no handle
\* and no dev-mode channel, the stop task done; the other tenant is absent
C30_Witness ==
  \E t \in Tenants, u \in Tenants :
    LET w == WORKER_TABLE[t]
    IN /\ w # NoWorker /\ WORKER_TABLE[u] = NoWorker
       /\ worker[w].watch_tx = NoRt /\ worker[w].worker_handlers = <<>>
       /\ \E r \in RuntimesOf(w) : rt[r].task = "done"
       /\ h = Idle

\* ------------------------------------------------------ failures
\* flags_from_vec(args) returns Err in the thread of runtime r, before the
\* runtime has done anything: unwrap_or_exit prints the error and calls
\* std::process::exit, which ends the gateway process with all its threads.
\* args is the gateway's own command line followed by "run" and the script path.
RtBootFail(r) ==
  /\ Up
  /\ rt[r].st = "running"
  /\ rt[r].sig = 0
  /\ gateway' = "exited"
  /\ UNCHANGED <<WORKER_PORT, PORT_TABLE, WORKER_TABLE, worker, listener, server_ch,
                 stream, nconn, rt, h, lockWaiters, ret>>
  /\ UNCHANGED <<occupied, poisoned, rejected, fwd, resp, accept_off>>

\* tcp_listener.accept() completes with Err: the value does not match the
\* pattern Ok((tcp_stream, _add)), so select! disables that branch and goes on
\* waiting on server_rx.recv() alone, until a message completes the select!
ListenerAcceptErr(w) ==
  /\ Up
  /\ listener[w].st = "running"
  /\ w \notin accept_off
  /\ ~Busy(listener[w].thr)
  /\ accept_off' = accept_off \cup {w}
  /\ UNCHANGED <<WORKER_PORT, PORT_TABLE, WORKER_TABLE, worker, listener, server_ch,
                 stream, nconn, rt, h, lockWaiters, ret>>
  /\ UNCHANGED <<occupied, poisoned, rejected, fwd, resp, gateway>>

\* what goes wrong outside the control plane
Faults ==
  \/ \E r \in RtIds : RtBootFail(r)
  \/ \E w \in Wids : ListenerAcceptErr(w)

\* Every control route served by one executor thread, with inbound connections,
\* runtimes whose flag parsing fails and accept errors.
FaultNext ==
  \/ \E t \in Tenants : Route(t, CallerThread)
  \/ SendStartResume
  \/ Tasks
  \/ \E w \in Wids : ListenerAccept(w)
  \/ Faults

FaultSpec == ProxyInit /\ [][FaultNext]_vars

\* C31: a script-runtime instance that fails to start, for example on a
\* flag-parsing error in its thread, ends only that instance: the gateway
\* process keeps running, and with it every Worker, listener and instance.
C31_GatewaySurvives ==
  [][\A r \in RtIds : RtBootFail(r) =>
        /\ gateway' = "running"
        /\ \A q \in RtIds \ {r} : rt'[q] = rt[q]
        /\ worker' = worker /\ listener' = listener]_vars

\* C32: after an accept() error the listener loop is alive, in the state it
\* had, and accepts the next inbound connection without a ServerStatus message
\* having to arrive first.
C32_AcceptErrorsTransient ==
  \A w \in Wids :
    (listener[w].st = "running" /\ ~Busy(listener[w].thr) /\ nconn[w] < MaxConns /\ Up)
      => ENABLED ListenerAccept(w)

\* C33: a call of start_runtime adds exactly one handle to the instance list,
\* at its end, and sends ServerStatus::Start if and only if the list was empty
\* before the call (the send completes, suspends the caller on a full channel,
\* or fails on a closed one); watch_tx and the Worker's port stay as they were.
C33_StartRuntime ==
  [][\A w \in Wids : call_start_runtime(w) =>
        LET harr == worker[w].worker_handlers
        IN /\ Len(worker'[w].worker_handlers) = Len(harr) + 1
           /\ SubSeq(worker'[w].worker_handlers, 1, Len(harr)) = harr
           /\ worker'[w].watch_tx = worker[w].watch_tx
           /\ worker'[w].port = worker[w].port
           /\ IF harr = <<>>
                THEN CASE SendOutcome(w) = "sent" ->
                            server_ch'[w] = Append(server_ch[w], "Start") /\ h' = Idle
                       [] SendOutcome(w) = "full" ->
                            server_ch' = server_ch /\ h'.pc = "send_start" /\ h'.w = w
                       [] OTHER -> server_ch' = server_ch /\ h' = Idle
                ELSE server_ch' = server_ch /\ h' = Idle]_vars

\* a second start_runtime has returned: two handles, and no Start was sent to
\* the listener, which accepts since the first
C33_Witness ==
  \E w \in Wids :
    /\ ret = Returned("start_runtime", TRUE) /\ h = Idle
    /\ Len(worker[w].worker_handlers) = 2
    /\ server_ch[w] = <<>> /\ Accepting(w)

\* C34: the info command reports 0 for a tenant that is not in WORKER_TABLE,
\* the number of production instance handles its Worker holds otherwise, and 1
\* when the Worker holds none but has the dev-mode channel.
C34_InfoCount ==
  \A t \in Tenants :
    LET w == WORKER_TABLE[t]
        count == Reply("info", t).data.count
    IN /\ w = NoWorker => count = 0
       /\ (w # NoWorker /\ worker[w].worker_handlers # <<>>) =>
            count = Len(worker[w].worker_handlers)
       /\ (w # NoWorker /\ worker[w].worker_handlers = <<>>) =>
            count = IF worker[w].watch_tx # NoRt THEN 1 ELSE 0

\* the info command changes no state of the gateway
C34_InfoReadOnly ==
  [][\A t \in Tenants, thr \in Threads : api_get_runtime_info(t, thr) =>
        UNCHANGED <<WORKER_PORT, PORT_TABLE, WORKER_TABLE, worker, listener,
                    server_ch, stream, rt>>]_vars

C34_Info == []C34_InfoCount /\ C34_InfoReadOnly

\* the info command can be served for a tenant in dev mode with no handle, and
\* for one that holds a handle
C34_Witness ==
  /\ \E t \in Tenants :
       /\ ENABLED api_get_runtime_info(t, CallerThread)
       /\ WORKER_TABLE[t] # NoWorker
       /\ worker[WORKER_TABLE[t]].worker_handlers = <<>>
       /\ worker[WORKER_TABLE[t]].watch_tx # NoRt
       /\ Reply("info", t).data.count = 1
  /\ \E t \in Tenants :
       /\ WORKER_TABLE[t] # NoWorker
       /\ Len(worker[WORKER_TABLE[t]].worker_handlers) = 1
       /\ Reply("info", t).data.count = 1

\* the stop tasks of Worker w that have a ServerStatus::Wait still to send
UnsentWaits(w) ==
  {r \in RtIds : rt[r].w = w /\ rt[r].taskWait /\ rt[r].task \in {"spawned", "wait"}}

\* C35: the listener consumes the ServerStatus messages of a Worker in the
\* order of the calls that issue them: when the Start of a start_* call enters
\* the channel, no Wait of a stop call made before it is still to be sent (it
\* would be consumed after that Start).
C35_ControlOrder ==
  [][\A w \in Wids :
        server_ch'[w] = Append(server_ch[w], "Start") => UnsentWaits(w) = {}]_vars

\* C36: every connection a script runtime takes from the stream channel was
\* accepted while the Worker had a production instance or dev mode active; one
\* queued before the first start, or left over when the last runtime stopped,
\* is never handed to a runtime started later.
C36_NoStaleConnections ==
  [][\A r \in RtIds : RtRecv(r) => Head(stream[rt[r].w]).active]_vars

\* a thread blocked in WORKER_TABLE.lock() while the handler that holds the
\* lock is a task of that same thread, suspended in its send of Start
SelfBlocked(thr) ==
  thr \in lockWaiters /\ h.pc = "send_start" /\ h.thr = thr

\* C37: no thread is ever blocked on a lock of the control plane whose holder is
\* a suspended task that can resume only on that thread,
C37_NoSelfBlocking == \A thr \in Threads : ~SelfBlocked(thr)

\* and under fair scheduling every request returns: the handler in progress
\* comes to its end and every thread waiting for WORKER_TABLE gets it.
C37_RequestsReturn ==
  /\ (h # Idle) ~> (h = Idle)
  /\ \A thr \in Threads : (thr \in lockWaiters) ~> (h = Idle /\ thr \notin lockWaiters)

C37_DeadlockFreedom == []C37_NoSelfBlocking /\ C37_RequestsReturn

\* the Workers constructed by this step, each with the port get_next_port returned
Constructed == {w \in Wids : worker[w].st = "none" /\ worker'[w].st # "none"}

\* C38 (cursor): the port cursor never decreases,
C38_CursorMonotone == [][WORKER_PORT' >= WORKER_PORT]_vars

\* C38 (no reuse): every port get_next_port returns is strictly greater than the
\* cursor before the call and than every port returned before it,
C38_FreshPort ==
  [][\A w \in Constructed :
        /\ worker'[w].port > WORKER_PORT
        /\ WORKER_PORT' = worker'[w].port
        /\ \A q \in Wids : worker[q].st # "none" => worker'[w].port > worker[q].port]_vars

\* C38 (table): and the cursor is greater than or equal to every port in
\* PORT_TABLE and every port a Worker was given.
C38_CursorBounds ==
  /\ \A t \in Tenants : PORT_TABLE[t] # NoPort => PORT_TABLE[t] <= WORKER_PORT
  /\ \A w \in Wids : worker[w].st # "none" => worker[w].port <= WORKER_PORT

C38_PortsNeverReused == C38_CursorMonotone /\ C38_FreshPort /\ []C38_CursorBounds

\* a tenant that exited and was started again: its second Worker is registered
\* with a larger port than the dropped one had
C38_Witness ==
  \E w1, w2 \in Wids :
    /\ worker[w1].st = "dropped" /\ worker[w2].st = "live"
    /\ worker[w1].id = worker[w2].id
    /\ WORKER_TABLE[worker[w2].id] = w2
    /\ PORT_TABLE[worker[w2].id] = worker[w2].port
    /\ worker[w2].port > worker[w1].port

\* C39 (agreement): whenever no control handler is in progress, WORKER_TABLE and
\* PORT_TABLE hold the same tenants, and the PORT_TABLE port of each is the port
\* field of its Worker,
C39_Agree ==
  h = Idle =>
    \A t \in Tenants :
      /\ WORKER_TABLE[t] # NoWorker <=> PORT_TABLE[t] # NoPort
      /\ WORKER_TABLE[t] # NoWorker => PORT_TABLE[t] = worker[WORKER_TABLE[t]].port

\* C39 (port): which never changes after construction.
C39_PortFixed ==
  [][\A w \in Wids : worker[w].st # "none" => worker'[w].port = worker[w].port]_vars

C39_TablesAgree == []C39_Agree /\ C39_PortFixed

\* no handler in progress, one tenant registered and running, the other one
\* gone from both tables after its exit
C39_Witness ==
  /\ h = Idle
  /\ \E t1, t2 \in Tenants :
       /\ t1 # t2
       /\ WORKER_TABLE[t1] # NoWorker /\ PORT_TABLE[t1] = worker[WORKER_TABLE[t1]].port
       /\ Active(worker[WORKER_TABLE[t1]])
       /\ WORKER_TABLE[t2] = NoWorker /\ PORT_TABLE[t2] = NoPort
       /\ \E w \in Wids : worker[w].st = "dropped" /\ worker[w].id = t2

\* the runtimes started on a Worker not yet dropped that no stop task has been
\* spawned for
Unsignalled(w) ==
  {r \in RtIds : rt[r].kind # "none" /\ rt[r].w = w /\ rt[r].task = "none"}

\* C40 (once): a runtime is signalled at most once, by the stop task spawned
\* when its handle is taken out of the Worker,
C40_SignalledOnce ==
  \A r \in RtIds :
    /\ rt[r].sig <= 1
    /\ rt[r].sig = 1 => rt[r].task \in {"wait", "done"}
    /\ (rt[r].kind # "none" /\ rt[r].task # "none") => r \notin Held(rt[r].w)

\* C40 (holder): and every started runtime that has not been signalled has its
\* handle in its Worker, so that a stop or the destruction reaches it.
C40_NoOrphan ==
  \A w \in Wids : worker[w].st = "live" => Unsignalled(w) \subseteq Held(w)

C40_SignalledByHolder == C40_SignalledOnce /\ C40_NoOrphan
====
